---- MODULE Spec2Model ----
(***************************************************************************)
(* A model of the MongodbUtilities query builder and data-access helpers.  *)
(*                                                                         *)
(* The repository holds three revisions of the same package:               *)
(*   "part_001"          - Build(), no deadlines, no update/delete options *)
(*   "MongodbUtilities"  - Build(), 15 minute deadlines                    *)
(*   "part_000"          - Build(database) with joins, deadlines, options  *)
(* The variable `variant` says which revision a behaviour runs.            *)
(*                                                                         *)
(* Go pointers and interface values that may be nil are sequences of       *)
(* length at most one: <<>> is nil, <<v>> is a pointer to v.               *)
(***************************************************************************)
EXTENDS Integers, Sequences, FiniteSets, TLC

VARIABLES
    variant,   \* the revision of the package that runs
    qs,        \* the QuerySet objects on the heap, by name
    hist,      \* per QuerySet: the Filter/Exclude calls its owner made
    coll,      \* the documents of the collection "main", in insertion order
    nextId,    \* the next identity the store assigns on insert
    modelId,   \* the identity the BaseModel instance reports (GetID)
    pc,        \* where the running helper is: "idle", "join" or "outer"
    cur,       \* the helper call in progress (or the last one)
    pending,   \* the store call in flight: <<>> or <<call>>
    calls,     \* the store calls the current helper call has issued
    ret,       \* what the last helper call returned
    ncalls,    \* API calls made so far
    entry,     \* history: the QuerySets as they were when the current call began
    outcomes,  \* history: how each join lookup of the current call ended
    answer,    \* history: the store's answer to the helper's own call
    modelOnly, \* history: so far only SaveModel and DeleteModel touched the
               \* store, and the store answered each of their calls
    threads    \* concurrent callers: where each one's helper call is

vars == <<variant, qs, hist, coll, nextId, modelId, pc, cur, pending, calls,
          ret, ncalls, entry, outcomes, answer, modelOnly, threads>>

-----------------------------------------------------------------------------
(* Bounds *)

MaxCalls == 3

-----------------------------------------------------------------------------
(* Revisions *)

Variants == {"part_001", "MongodbUtilities", "part_000"}

HasJoins(v) == v = "part_000"

HasDeadline(v) == v # "part_001"

HonorsWriteOptions(v) == v = "part_000"

TimeoutMinutes == 15

NilObjectID == 0

-----------------------------------------------------------------------------
(* Filter fragments (bson.M values) *)

Frag(op, field, args, vals) ==
    [op |-> op, field |-> field, args |-> args, vals |-> vals]

Eq(field, v) == Frag("$eq", field, <<>>, <<v>>)

Nor(queries) == Frag("$nor", "", queries, <<>>)

In(field, ids) == Frag("$in", field, <<>>, ids)

And(queries) == Frag("$and", "", queries, <<>>)

FragA == Eq("k", 1)

FragB == Eq("k", 2)

\* the argument lists a caller passes to the variadic Filter and Exclude
FragLists == {<<>>, <<FragB>>, <<FragA, FragB>>}

-----------------------------------------------------------------------------
(* QuerySet and its builder methods *)

QSIds == {"q", "fq"}

EmptyQuerySet ==
    [Query |-> <<>>, FindOptions |-> <<>>, UpdateOptions |-> <<>>,
     DeleteOptions |-> <<>>, Joins |-> <<>>]

OptionsFind == [Limit |-> <<>>, Skip |-> <<>>, Sort |-> <<>>, Projection |-> <<>>]

OptionsUpdate == [kind |-> "UpdateOptions"]

OptionsDelete == [kind |-> "DeleteOptions"]

\* a faulty Filter: the new fragments go in front of the accumulated ones
Filter_Prepend(instance, queries) ==
    [instance EXCEPT !.Query = queries \o @]

Filter(instance, queries) ==
    [instance EXCEPT !.Query = @ \o queries]

\* a faulty Exclude: one negation per argument
Exclude_PerArgument(instance, queries) ==
    [instance EXCEPT
        !.Query = @ \o [i \in 1..Len(queries) |-> Nor(<<queries[i]>>)]]

Exclude(instance, queries) ==
    [instance EXCEPT !.Query = Append(@, Nor(queries))]

QueryJoin(field, joinField, joinCollection, joinQuery) ==
    [Field |-> field, JoinField |-> joinField,
     JoinCollection |-> joinCollection, Query |-> joinQuery]

Join(instance, field, joinField, joinCollection, joinQuery) ==
    [instance EXCEPT
        !.Joins = Append(@, QueryJoin(field, joinField, joinCollection, joinQuery))]

InitializeOptions(instance) ==
    [instance EXCEPT
        !.FindOptions = IF @ = <<>> THEN <<OptionsFind>> ELSE @,
        !.UpdateOptions = IF @ = <<>> THEN <<OptionsUpdate>> ELSE @,
        !.DeleteOptions = IF @ = <<>> THEN <<OptionsDelete>> ELSE @]

\* a faulty Limit: the limit goes into a fresh find bag
Limit_FreshBag(instance, limit) ==
    LET i == InitializeOptions(instance)
    IN  [i EXCEPT !.FindOptions = <<[OptionsFind EXCEPT !.Limit = <<limit>>]>>]

Limit(instance, limit) ==
    LET i == InitializeOptions(instance)
    IN  [i EXCEPT !.FindOptions = <<[@[1] EXCEPT !.Limit = <<limit>>]>>]

Sort(instance, sort) ==
    LET i == InitializeOptions(instance)
    IN  [i EXCEPT !.FindOptions = <<[@[1] EXCEPT !.Sort = <<sort>>]>>]

Skip(instance, limit) ==
    LET i == InitializeOptions(instance)
    IN  [i EXCEPT !.FindOptions = <<[@[1] EXCEPT !.Skip = <<limit>>]>>]

\* a faulty Fields: the fields are added to the projection already set
Fields_Merge(instance, fields) ==
    LET i == InitializeOptions(instance)
        filterFields == {<<f, 1>> : f \in fields}
        before == IF i.FindOptions[1].Projection = <<>> THEN {}
                  ELSE i.FindOptions[1].Projection[1]
    IN  [i EXCEPT !.FindOptions =
                    <<[@[1] EXCEPT !.Projection = <<before \cup filterFields>>]>>]

\* map[string]int8 as the set of its <<key, value>> pairs
Fields(instance, fields) ==
    LET i == InitializeOptions(instance)
        filterFields == {<<f, 1>> : f \in fields}
    IN  [i EXCEPT !.FindOptions = <<[@[1] EXCEPT !.Projection = <<filterFields>>]>>]

ExcludeFields(instance, fields) ==
    LET i == InitializeOptions(instance)
        filterFields == {<<f, 0>> : f \in fields}
    IN  [i EXCEPT !.FindOptions = <<[@[1] EXCEPT !.Projection = <<filterFields>>]>>]

CreateQuery(queries) == Filter(EmptyQuerySet, queries)

\* a faulty PaginateQuery: the skip value is applied with Limit
PaginateQuery_SkipSetsLimit(query, skip, limit) ==
    LET q1 == IF skip # <<>> THEN Limit(query, skip[1]) ELSE query
    IN  IF limit # <<>> THEN Limit(q1, limit[1]) ELSE q1

\* skip and limit are *int: <<>> is nil
PaginateQuery(query, skip, limit) ==
    LET q1 == IF skip # <<>> THEN Skip(query, skip[1]) ELSE query
    IN  IF limit # <<>> THEN Limit(q1, limit[1]) ELSE q1

\* Build of a QuerySet that declares no join
BuildFilter(instance) == And(instance.Query)

-----------------------------------------------------------------------------
(* The store: the collection "main" (variable coll) and the read-only      *)
(* foreign collections.  A document is a function from field names to      *)
(* values; identities are the positive integers, NilObjectID is 0.         *)

Doc(id, k, ref) == [_id |-> id, k |-> k, ref |-> ref]

MainDocs == <<Doc(1, 1, 1), Doc(2, 2, 2)>>

ForeignDocs == <<Doc(11, 1, 1), Doc(12, 1, 1), Doc(13, 2, 2)>>

Collection(name) == IF name = "main" THEN coll ELSE ForeignDocs

RECURSIVE Matches(_, _)
Matches(doc, frag) ==
    CASE frag.op = "$eq"  -> frag.field \in DOMAIN doc /\ doc[frag.field] = frag.vals[1]
      [] frag.op = "$in"  -> /\ frag.field \in DOMAIN doc
                             /\ \E i \in 1..Len(frag.vals) : frag.vals[i] = doc[frag.field]
      [] frag.op = "$nor" -> \A i \in 1..Len(frag.args) : ~Matches(doc, frag.args[i])
      [] frag.op = "$and" -> \A i \in 1..Len(frag.args) : Matches(doc, frag.args[i])

MatchIdx(docs, filter) == {i \in 1..Len(docs) : Matches(docs[i], filter)}

Matching(docs, filter) == SelectSeq(docs, LAMBDA d : Matches(d, filter))

Reverse(s) == [i \in 1..Len(s) |-> s[Len(s) + 1 - i]]

Min(a, b) == IF a < b THEN a ELSE b

\* a projection keeps _id and the fields mapped to 1, or drops those mapped to 0
Project(doc, projection) ==
    LET incl == {p[1] : p \in {x \in projection : x[2] = 1}}
        excl == {p[1] : p \in {x \in projection : x[2] = 0}}
        keep == IF incl # {} THEN (incl \cup {"_id"}) \cap DOMAIN doc
                ELSE DOMAIN doc \ excl
    IN  [f \in keep |-> doc[f]]

\* what a cursor of Find yields: filter, then sort, skip, limit and projection
FindResult(docs, filter, opts) ==
    LET o == IF opts = <<>> THEN OptionsFind ELSE opts[1]
        m == Matching(docs, filter)
        sorted == IF o.Sort = <<"desc">> THEN Reverse(m) ELSE m
        sk == IF o.Skip = <<>> THEN 0 ELSE Min(o.Skip[1], Len(sorted))
        skipped == SubSeq(sorted, sk + 1, Len(sorted))
        lim == IF o.Limit = <<>> THEN Len(skipped) ELSE Min(o.Limit[1], Len(skipped))
        limited == SubSeq(skipped, 1, lim)
    IN  IF o.Projection = <<>> THEN limited
        ELSE [i \in 1..Len(limited) |-> Project(limited[i], o.Projection[1])]

-----------------------------------------------------------------------------
(* Store calls and what the store does with them *)

NoRet == [res |-> <<>>, err |-> <<>>]

Result(kind, docs, n) == [kind |-> kind, docs |-> docs, n |-> n]

\* context.WithTimeout(context.Background(), 15*time.Minute), or context.TODO()
Deadline(v) == IF HasDeadline(v) THEN <<TimeoutMinutes>> ELSE <<>>

StoreCall(op, via, collection, filter, opts, arg) ==
    [op |-> op, via |-> via, coll |-> collection, filter |-> filter,
     opts |-> opts, arg |-> arg, deadline |-> Deadline(variant)]

\* the documents of the BaseModel instance, without its identity
ModelFields == [k |-> 1, ref |-> 2]

WithId(fields, id) ==
    [f \in DOMAIN fields \cup {"_id"} |-> IF f = "_id" THEN id ELSE fields[f]]

\* {"$set": fields} applied to a document
ApplySet(doc, fields) ==
    [f \in DOMAIN doc \cup DOMAIN fields |->
        IF f \in DOMAIN fields THEN fields[f] ELSE doc[f]]

First(S) == CHOOSE i \in S : \A j \in S : i <= j

Remove(docs, S) ==
    LET keep == {i \in 1..Len(docs) : i \notin S}
        F[n \in 0..Len(docs)] ==
            IF n = 0 THEN <<>>
            ELSE IF n \in keep THEN Append(F[n - 1], docs[n]) ELSE F[n - 1]
    IN  F[Len(docs)]

Outcome(c, n, res, err) == [coll |-> c, nextId |-> n, res |-> res, err |-> err]

\* the store's answer to call c, when it answers `how`: "ok", "error" or "timeout"
StoreExec(c, how) ==
    LET docs == Collection(c.coll)
        f == IF c.filter = <<>> THEN And(<<>>) ELSE c.filter[1]
        hit == MatchIdx(docs, f)
        one == IF hit = {} THEN {} ELSE {First(hit)}
    IN  IF how = "error" THEN Outcome(coll, nextId, <<>>, <<"store error">>)
        ELSE IF how = "timeout"
        THEN Outcome(coll, nextId, <<>>, <<"context deadline exceeded">>)
        ELSE CASE c.op = "InsertOne" ->
                    Outcome(Append(coll, WithId(c.arg[1], nextId)), nextId + 1,
                            <<Result("InsertOneResult", <<>>, nextId)>>, <<>>)
               [] c.op = "InsertMany" ->
                    Outcome(coll \o [i \in 1..Len(c.arg) |-> WithId(c.arg[i], nextId + i - 1)],
                            nextId + Len(c.arg),
                            <<Result("InsertManyResult", <<>>, Len(c.arg))>>, <<>>)
               [] c.op = "FindOne" ->
                    IF hit = {}
                    THEN Outcome(coll, nextId, <<>>, <<"ErrNoDocuments">>)
                    ELSE Outcome(coll, nextId,
                                 <<Result("SingleResult", <<docs[First(hit)]>>, 1)>>, <<>>)
               [] c.op = "Find" ->
                    LET r == FindResult(docs, f, c.opts)
                    IN  Outcome(coll, nextId, <<Result("Cursor", r, Len(r))>>, <<>>)
               [] c.op \in {"UpdateOne", "UpdateMany"} ->
                    LET S == IF c.op = "UpdateOne" THEN one ELSE hit
                    IN  Outcome([i \in 1..Len(coll) |->
                                    IF i \in S THEN ApplySet(coll[i], c.arg[1]) ELSE coll[i]],
                                nextId,
                                <<Result("UpdateResult", <<>>, Cardinality(S))>>, <<>>)
               [] c.op \in {"DeleteOne", "DeleteMany"} ->
                    LET S == IF c.op = "DeleteOne" THEN one ELSE hit
                    IN  Outcome(Remove(coll, S), nextId,
                                <<Result("DeleteResult", <<>>, Cardinality(S))>>, <<>>)
               [] c.op = "CountDocuments" ->
                    Outcome(coll, nextId, <<Result("int64", <<>>, Cardinality(hit))>>, <<>>)
               [] c.op = "Aggregate" ->
                    Outcome(coll, nextId, <<Result("Cursor", docs, Len(docs))>>, <<>>)
               [] c.op = "CreateOne" ->
                    Outcome(coll, nextId, <<>>, <<>>)
               [] c.op = "ListCollectionNames" ->
                    Outcome(coll, nextId, <<Result("names", <<"archive", "foreign", "main">>, 3)>>, <<>>)

-----------------------------------------------------------------------------
(* The data-access helpers *)

UsesQuerySet == {"GetDocument", "GetDocuments", "UpdateDocument", "UpdateDocuments",
                 "DeleteDocument", "DeleteDocuments", "CountDocuments", "Build"}

\* the local `var query QuerySet; query.Filter(bson.M{"_id": instance.GetID()})`
LocalQuery == Filter(EmptyQuerySet, <<Eq("_id", modelId)>>)

Inst(qsv, qid) == IF qid \in QSIds THEN qsv[qid] ELSE LocalQuery

\* a faulty SaveModel: it inserts whatever the identity
Via_AlwaysInsert(h) ==
    CASE h = "SaveModel" -> "InsertDocument"
      [] h = "DeleteModel" -> "DeleteDocument"
      [] OTHER -> h

\* the data-access helper a call of h ends in
Via(h) ==
    CASE h = "SaveModel" ->
            IF modelId = NilObjectID THEN "InsertDocument" ELSE "UpdateDocument"
      [] h = "DeleteModel" -> "DeleteDocument"
      [] OTHER -> h

\* CreateIndexes: the keys map, a later field of the same name overwriting
IndexKeys(fields) ==
    {<<fields[i].Field, IF fields[i].Ascending THEN 1 ELSE -1>> :
        i \in {j \in 1..Len(fields) :
                 \A l \in (j + 1)..Len(fields) : fields[l].Field # fields[j].Field}}

WriteOptions(opts) == IF HonorsWriteOptions(variant) THEN opts ELSE <<>>

\* the one store call helper `via` issues, `filter` being query.Build(...)
HelperCall(via, instance, filter, arg) ==
    CASE via = "InsertDocument" ->
            StoreCall("InsertOne", via, "main", <<>>, <<>>, arg)
      [] via = "InsertDocuments" ->
            StoreCall("InsertMany", via, "main", <<>>, <<>>, arg)
      [] via = "GetDocument" ->
            StoreCall("FindOne", via, "main", <<filter>>, <<>>, <<>>)
      [] via = "GetDocuments" ->
            StoreCall("Find", via, "main", <<filter>>, instance.FindOptions, <<>>)
      [] via = "UpdateDocument" ->
            StoreCall("UpdateOne", via, "main", <<filter>>,
                      WriteOptions(instance.UpdateOptions), arg)
      [] via = "UpdateDocuments" ->
            StoreCall("UpdateMany", via, "main", <<filter>>,
                      WriteOptions(instance.UpdateOptions), arg)
      [] via = "DeleteDocument" ->
            StoreCall("DeleteOne", via, "main", <<filter>>,
                      WriteOptions(instance.DeleteOptions), <<>>)
      [] via = "DeleteDocuments" ->
            StoreCall("DeleteMany", via, "main", <<filter>>,
                      WriteOptions(instance.DeleteOptions), <<>>)
      [] via = "CountDocuments" ->
            StoreCall("CountDocuments", via, "main", <<filter>>, <<>>, <<>>)
      [] via = "AggregateDocuments" ->
            StoreCall("Aggregate", via, "main", <<>>, <<>>, arg)
      [] via = "CreateIndexes" ->
            StoreCall("CreateOne", via, "main", <<>>, <<>>, <<IndexKeys(arg)>>)
      [] via = "CreateIndex" ->
            StoreCall("CreateOne", via, "main", <<>>, <<>>, <<{arg[1]}>>)
      [] via = "ListCollections" ->
            StoreCall("ListCollectionNames", via, "main", <<>>, <<>>, <<>>)

\* a faulty GetDocument: ErrNoDocuments is returned like any other error
GetDocumentReturn_NoNormalise(o) ==
    IF o.err # <<>> THEN [res |-> <<>>, err |-> o.err]
    ELSE [res |-> o.res, err |-> <<>>]

\* GetDocument: ErrNoDocuments becomes (nil, nil), another error (nil, err)
GetDocumentReturn(o) ==
    IF o.err # <<>>
    THEN IF o.err = <<"ErrNoDocuments">> THEN [res |-> <<>>, err |-> <<>>]
         ELSE [res |-> <<>>, err |-> o.err]
    ELSE [res |-> o.res, err |-> <<>>]

\* what helper h returns on the store's answer o to the call of `via`
HelperReturn(h, via, o) ==
    IF h \in {"SaveModel", "DeleteModel", "CreateIndex", "CreateIndexes"}
    THEN [res |-> <<>>, err |-> o.err]
    ELSE IF via = "GetDocument" THEN GetDocumentReturn(o)
    ELSE [res |-> o.res, err |-> o.err]

\* a faulty DeleteModel: no test of the identity
SkipsStore_Never(h) == FALSE

\* DeleteModel of a model without identity returns nil at once
SkipsStore(h) == h = "DeleteModel" /\ modelId = NilObjectID

\* SaveModel: instance.SetID(res.InsertedID) after an insert without error
SetID(h, c, o) ==
    IF h = "SaveModel" /\ c.op = "InsertOne" /\ o.err = <<>> THEN o.res[1].n
    ELSE modelId

-----------------------------------------------------------------------------
(* Join evaluation *)

NilValue == 0

\* GetDocuments(database, join.JoinCollection, join.Query.Fields(join.JoinField)):
\* the foreign QuerySet after Fields, and the Find it issues
JoinLookup(qsv, join) ==
    LET q2 == [qsv EXCEPT ![join.Query] = Fields(@, {join.JoinField})]
    IN  [qs |-> q2,
         call |-> StoreCall("Find", "GetDocuments", join.JoinCollection,
                            <<BuildFilter(q2[join.Query])>>,
                            q2[join.Query].FindOptions, <<>>)]

\* a faulty EvaluateJoin: the error of res.All is not looked at, so a failed
\* read yields a membership over no entries
EvaluateJoin_FailClosed(join, c, how) ==
    LET o == StoreExec(c, IF how \in {"error", "timeout"} THEN how ELSE "ok")
        res == IF how = "nilcursor" THEN <<>> ELSE o.res
    IN  IF res = <<>> \/ o.err # <<>> THEN <<>>
        ELSE LET entries == IF how = "readerror" THEN <<>> ELSE res[1].docs
                 ids == [i \in 1..Len(entries) |->
                            IF join.JoinField \in DOMAIN entries[i]
                            THEN entries[i][join.JoinField] ELSE NilValue]
             IN  <<In(join.Field, ids)>>

\* a faulty EvaluateJoin: no fragment when no foreign document was found
EvaluateJoin_OmitEmpty(join, c, how) ==
    LET o == StoreExec(c, IF how \in {"error", "timeout"} THEN how ELSE "ok")
        res == IF how = "nilcursor" THEN <<>> ELSE o.res
    IN  IF res = <<>> \/ o.err # <<>> THEN <<>>
        ELSE IF how = "readerror" \/ res[1].docs = <<>> THEN <<>>
        ELSE LET entries == res[1].docs
                 ids == [i \in 1..Len(entries) |->
                            IF join.JoinField \in DOMAIN entries[i]
                            THEN entries[i][join.JoinField] ELSE NilValue]
             IN  <<In(join.Field, ids)>>

\* the rest of EvaluateJoin: nil, or the $in fragment, as <<>> or <<fragment>>.
\* how: "ok", "error", "timeout" (Find fails), "nilcursor", "readerror" (All fails)
EvaluateJoin(join, c, how) ==
    LET o == StoreExec(c, IF how \in {"error", "timeout"} THEN how ELSE "ok")
        res == IF how = "nilcursor" THEN <<>> ELSE o.res
    IN  IF res = <<>> \/ o.err # <<>> THEN <<>>
        ELSE IF how = "readerror" THEN <<>>
        ELSE LET entries == res[1].docs
                 ids == [i \in 1..Len(entries) |->
                            IF join.JoinField \in DOMAIN entries[i]
                            THEN entries[i][join.JoinField] ELSE NilValue]
             IN  <<In(join.Field, ids)>>

-----------------------------------------------------------------------------
(* A helper call, from its entry to its return *)

\* a faulty loop: every iteration sees the declaration the loop ended on
JoinAt_LastDeclared(joins, ji) == joins[Len(joins)]

\* `for _, join := range instance.Joins`: the declaration of iteration ji
JoinAt(joins, ji) == joins[ji]

Return(r) ==
    /\ pc' = "idle"
    /\ pending' = <<>>
    /\ ret' = r

\* Build's loop over instance.Joins from index ji on, then the helper's own
\* store call; qsv and callsv are the QuerySets and the call log so far
Advance(h, qid, arg, ji, qsv, callsv) ==
    LET instance == Inst(qsv, qid)
    IN  /\ cur' = [helper |-> h, qid |-> qid, arg |-> arg, ji |-> ji]
        /\ IF h \in UsesQuerySet /\ HasJoins(variant) /\ ji <= Len(instance.Joins)
           THEN LET l == JoinLookup(qsv, JoinAt(instance.Joins, ji))
                IN  /\ qs' = l.qs
                    /\ pc' = "join"
                    /\ pending' = <<l.call>>
                    /\ calls' = Append(callsv, l.call)
                    /\ ret' = NoRet
           ELSE /\ qs' = qsv
                /\ IF h = "Build"
                   THEN /\ Return([res |-> <<Result("bson.M", <<BuildFilter(instance)>>, 0)>>,
                                   err |-> <<>>])
                        /\ calls' = callsv
                   ELSE IF SkipsStore(h)
                   THEN /\ Return(NoRet)
                        /\ calls' = callsv
                   ELSE LET c == HelperCall(Via(h), instance, BuildFilter(instance), arg)
                        IN  /\ pc' = "outer"
                            /\ pending' = <<c>>
                            /\ calls' = Append(callsv, c)
                            /\ ret' = NoRet

Begin(h, qid, arg) ==
    /\ pc = "idle"
    /\ ncalls < MaxCalls
    /\ ncalls' = ncalls + 1
    /\ Advance(h, qid, arg, 1, qs, <<>>)
    /\ entry' = qs
    /\ outcomes' = <<>>
    /\ answer' = NoRet
    /\ modelOnly' = (modelOnly /\ h \in {"SaveModel", "DeleteModel"})
    /\ UNCHANGED <<variant, hist, coll, nextId, modelId, threads>>

\* the foreign lookup of the join in evaluation ends
JoinDone(how) ==
    LET join == JoinAt(qs[cur.qid].Joins, cur.ji)
        joinQuery == EvaluateJoin(join, pending[1], how)
        q2 == IF joinQuery # <<>>
              THEN [qs EXCEPT ![cur.qid] = Filter(@, joinQuery)]
              ELSE qs
    IN  /\ Advance(cur.helper, cur.qid, cur.arg, cur.ji + 1, q2, calls)
        /\ outcomes' = Append(outcomes, how)
        /\ UNCHANGED <<variant, hist, coll, nextId, modelId, ncalls, entry, answer,
                       modelOnly, threads>>

\* the helper's own store call ends
OuterDone(how) ==
    LET c == pending[1]
        o == StoreExec(c, how)
    IN  /\ coll' = o.coll
        /\ nextId' = o.nextId
        /\ modelId' = SetID(cur.helper, c, o)
        /\ Return(HelperReturn(cur.helper, c.via, o))
        /\ answer' = [res |-> o.res, err |-> o.err]
        /\ modelOnly' = (modelOnly /\ how = "ok")
        /\ UNCHANGED <<variant, qs, hist, cur, calls, ncalls, entry, outcomes, threads>>

-----------------------------------------------------------------------------
(* The inputs callers pass *)

\* limits and offsets: two values for q, one for the foreign QuerySet
IntArgs(qid) == IF qid = "q" THEN {1, 2} ELSE {1}

SortArgs == {"desc"}

FieldArgs == {{"k"}}

\* *int arguments of PaginateQuery: nil or a pointer
PtrArgs == {<<>>, <<1>>}

\* Join(field, joinField, joinCollection, joinQuery); the foreign QuerySet is fq
JoinArgs == {QueryJoin("ref", "ref", "foreign", "fq"),
             QueryJoin("k", "k", "archive", "fq")}

Documents == {[k |-> 2, ref |-> 1]}

Updates == {[k |-> 2]}

IndexFieldArgs == {<<[Field |-> "k", Ascending |-> TRUE]>>,
                   <<[Field |-> "k", Ascending |-> TRUE],
                     [Field |-> "ref", Ascending |-> FALSE]>>}

-----------------------------------------------------------------------------
(* Concurrent callers *)

Threads == {1, 2}

\* a caller that has not called a helper yet
ThreadReady ==
    [pc |-> "ready", helper |-> "none", arg |-> <<>>, ji |-> 0, call |-> <<>>,
     frag |-> <<>>, seen |-> <<>>, ret |-> NoRet]

-----------------------------------------------------------------------------
(* Builder calls: each runs to completion *)

\* the QuerySets callers work on: the foreign one exists where joins do
Callable == IF HasJoins(variant) THEN QSIds ELSE {"q"}

Builder(name, qid, arg, instance) ==
    /\ pc = "idle"
    /\ ncalls < MaxCalls
    /\ ncalls' = ncalls + 1
    /\ qs' = [qs EXCEPT ![qid] = instance]
    /\ cur' = [helper |-> name, qid |-> qid, arg |-> arg, ji |-> 0]
    /\ calls' = <<>>
    /\ ret' = NoRet
    /\ entry' = qs'
    /\ outcomes' = <<>>
    /\ answer' = NoRet
    /\ UNCHANGED <<variant, coll, nextId, modelId, pc, pending, modelOnly, threads>>

CallFilter ==
    \E qid \in Callable, queries \in FragLists :
        /\ Builder("Filter", qid, queries, Filter(qs[qid], queries))
        /\ hist' = [hist EXCEPT ![qid] = Append(@, [op |-> "Filter", args |-> queries])]

CallExclude ==
    \E qid \in {"q"}, queries \in FragLists :
        /\ Builder("Exclude", qid, queries, Exclude(qs[qid], queries))
        /\ hist' = [hist EXCEPT ![qid] = Append(@, [op |-> "Exclude", args |-> queries])]

\* joins are declared on q, over the foreign QuerySet fq
CallJoin ==
    \E j \in JoinArgs :
        /\ HasJoins(variant)
        /\ Builder("Join", "q", <<j>>,
                   Join(qs["q"], j.Field, j.JoinField, j.JoinCollection, j.Query))
        /\ UNCHANGED hist

CallInitializeOptions ==
    \E qid \in {"q"} :
        /\ HasJoins(variant)
        /\ Builder("InitializeOptions", qid, <<>>, InitializeOptions(qs[qid]))
        /\ UNCHANGED hist

CallLimit ==
    \E qid \in Callable : \E n \in IntArgs(qid) :
        /\ Builder("Limit", qid, <<n>>, Limit(qs[qid], n))
        /\ UNCHANGED hist

CallSort ==
    \E qid \in Callable, s \in SortArgs :
        /\ Builder("Sort", qid, <<s>>, Sort(qs[qid], s))
        /\ UNCHANGED hist

CallSkip ==
    \E qid \in Callable : \E n \in IntArgs(qid) :
        /\ Builder("Skip", qid, <<n>>, Skip(qs[qid], n))
        /\ UNCHANGED hist

CallFields ==
    \E qid \in Callable, fields \in FieldArgs :
        /\ HasJoins(variant)
        /\ Builder("Fields", qid, <<fields>>, Fields(qs[qid], fields))
        /\ UNCHANGED hist

CallExcludeFields ==
    \E qid \in Callable, fields \in FieldArgs :
        /\ HasJoins(variant)
        /\ Builder("ExcludeFields", qid, <<fields>>, ExcludeFields(qs[qid], fields))
        /\ UNCHANGED hist

CallPaginateQuery ==
    \E qid \in {"q"}, skip \in PtrArgs, limit \in PtrArgs :
        /\ Builder("PaginateQuery", qid, <<skip, limit>>, PaginateQuery(qs[qid], skip, limit))
        /\ UNCHANGED hist

-----------------------------------------------------------------------------
(* Helper calls: entry, then the store's answers *)

CallBuild == \E qid \in Callable : Begin("Build", qid, <<>>)

CallInsertDocument == \E d \in Documents : Begin("InsertDocument", "none", <<d>>)

CallInsertDocuments == \E d \in Documents : Begin("InsertDocuments", "none", <<d, d>>)

CallGetDocument == Begin("GetDocument", "q", <<>>)

CallGetDocuments == Begin("GetDocuments", "q", <<>>)

CallUpdateDocument == \E u \in Updates : Begin("UpdateDocument", "q", <<u>>)

CallUpdateDocuments == \E u \in Updates : Begin("UpdateDocuments", "q", <<u>>)

CallDeleteDocument == Begin("DeleteDocument", "q", <<>>)

CallDeleteDocuments == Begin("DeleteDocuments", "q", <<>>)

CallCountDocuments == Begin("CountDocuments", "q", <<>>)

CallAggregateDocuments == Begin("AggregateDocuments", "none", <<"pipeline">>)

CallCreateIndex ==
    /\ variant = "MongodbUtilities"
    /\ \E f \in {"k"}, v \in {1, -1} : Begin("CreateIndex", "none", <<<<f, v>>>>)

CallCreateIndexes ==
    /\ variant = "part_000"
    /\ \E fields \in IndexFieldArgs : Begin("CreateIndexes", "none", fields)

CallListCollections == Begin("ListCollections", "none", <<>>)

CallSaveModel == Begin("SaveModel", "local", <<WithId(ModelFields, modelId)>>)

CallDeleteModel == Begin("DeleteModel", "local", <<WithId(ModelFields, modelId)>>)

\* the store answers the foreign lookup of a join
JoinReply ==
    /\ pc = "join"
    /\ \E how \in {"ok", "error", "nilcursor", "readerror"} : JoinDone(how)

\* the store answers the helper's own call
StoreReply ==
    /\ pc = "outer"
    /\ \E how \in {"ok", "error"} : OuterDone(how)

\* the deadline of the call in flight elapses
DeadlineElapse ==
    /\ pending # <<>>
    /\ pending[1].deadline # <<>>
    /\ IF pc = "join" THEN JoinDone("timeout") ELSE OuterDone("timeout")

-----------------------------------------------------------------------------

Init ==
    /\ variant \in Variants
    /\ \E queries \in {<<FragA>>} :
        /\ qs = [qid \in QSIds |-> IF qid = "q" THEN CreateQuery(queries) ELSE CreateQuery(<<>>)]
        /\ hist = [qid \in QSIds |->
                     <<[op |-> "Filter", args |-> IF qid = "q" THEN queries ELSE <<>>]>>]
    /\ coll = MainDocs
    /\ nextId = Len(MainDocs) + 1
    /\ modelId = NilObjectID
    /\ pc = "idle"
    /\ cur = [helper |-> "CreateQuery", qid |-> "q", arg |-> <<>>, ji |-> 0]
    /\ pending = <<>>
    /\ calls = <<>>
    /\ ret = NoRet
    /\ ncalls = 0
    /\ entry = qs
    /\ outcomes = <<>>
    /\ answer = NoRet
    /\ modelOnly = TRUE
    /\ threads = [t \in Threads |-> ThreadReady]

Next ==
    \/ CallFilter
    \/ CallExclude
    \/ CallJoin
    \/ CallInitializeOptions
    \/ CallLimit
    \/ CallSort
    \/ CallSkip
    \/ CallFields
    \/ CallExcludeFields
    \/ CallPaginateQuery
    \/ CallBuild
    \/ CallInsertDocument
    \/ CallInsertDocuments
    \/ CallGetDocument
    \/ CallGetDocuments
    \/ CallUpdateDocument
    \/ CallUpdateDocuments
    \/ CallDeleteDocument
    \/ CallDeleteDocuments
    \/ CallCountDocuments
    \/ CallAggregateDocuments
    \/ CallCreateIndex
    \/ CallCreateIndexes
    \/ CallListCollections
    \/ CallSaveModel
    \/ CallDeleteModel
    \/ JoinReply
    \/ StoreReply
    \/ DeadlineElapse

Spec == Init /\ [][Next]_vars

-----------------------------------------------------------------------------
(* Two callers run helper calls on the same QuerySet q at the same time.   *)
(* The package takes no lock, so a helper call is the sequence of its      *)
(* reads and writes of the QuerySets and of its store calls, and the steps *)
(* of the two callers interleave freely.                                   *)

\* the helpers the concurrent callers use, with their arguments
ConcCalls ==
    {[helper |-> h, arg |-> <<>>] :
        h \in {"GetDocument", "GetDocuments", "CountDocuments", "DeleteDocument"}}
    \cup {[helper |-> "UpdateDocument", arg |-> <<u>>] : u \in Updates}

\* the variables of the single caller, which the concurrent callers leave alone
seqvars == <<hist, modelId, pc, cur, pending, calls, ret, ncalls, entry, outcomes,
             answer, modelOnly>>

\* the join a thread is evaluating
ThreadJoin(t) == JoinAt(qs["q"].Joins, threads[t].ji)

\* Build's loop at iteration ji: the next join, or the end of the loop
ThreadLoop(th, ji) ==
    [th EXCEPT !.ji = ji,
               !.pc = IF HasJoins(variant) /\ ji <= Len(qs["q"].Joins)
                      THEN "fields" ELSE "build",
               !.call = <<>>, !.frag = <<>>, !.seen = <<>>]

\* a caller enters a helper, which enters query.Build
ThreadBegin(t) ==
    /\ threads[t].pc = "ready"
    /\ \E c \in ConcCalls :
        threads' = [threads EXCEPT
                      ![t] = ThreadLoop([@ EXCEPT !.helper = c.helper, !.arg = c.arg], 1)]
    /\ UNCHANGED <<variant, qs, coll, nextId, seqvars>>

\* EvaluateJoin: join.Query.Fields(join.JoinField) writes the foreign QuerySet
ThreadFields(t) ==
    /\ threads[t].pc = "fields"
    /\ qs' = [qs EXCEPT ![ThreadJoin(t).Query] = Fields(@, {ThreadJoin(t).JoinField})]
    /\ threads' = [threads EXCEPT ![t].pc = "find"]
    /\ UNCHANGED <<variant, coll, nextId, seqvars>>

\* EvaluateJoin: GetDocuments on the foreign QuerySet reads its filter list
\* and its find options and issues the Find
ThreadFind(t) ==
    LET join == ThreadJoin(t)
        c == StoreCall("Find", "GetDocuments", join.JoinCollection,
                       <<BuildFilter(qs[join.Query])>>, qs[join.Query].FindOptions, <<>>)
    IN  /\ threads[t].pc = "find"
        /\ threads' = [threads EXCEPT ![t].pc = "lookup", ![t].call = <<c>>]
        /\ UNCHANGED <<variant, qs, coll, nextId, seqvars>>

\* the store answers the lookup; EvaluateJoin returns nil or the fragment
ThreadJoinReply(t) ==
    /\ threads[t].pc = "lookup"
    /\ \E how \in {"ok", "error"} :
        LET joinQuery == EvaluateJoin(ThreadJoin(t), threads[t].call[1], how)
        IN  threads' = [threads EXCEPT
                          ![t] = IF joinQuery = <<>> THEN ThreadLoop(@, @.ji + 1)
                                 ELSE [@ EXCEPT !.pc = "append", !.call = <<>>,
                                                !.frag = joinQuery]]
    /\ UNCHANGED <<variant, qs, coll, nextId, seqvars>>

\* instance.Filter(joinQuery): append(instance.Query, ...) reads the list
ThreadAppendRead(t) ==
    /\ threads[t].pc = "append"
    /\ threads' = [threads EXCEPT ![t].pc = "store", ![t].seen = qs["q"].Query]
    /\ UNCHANGED <<variant, qs, coll, nextId, seqvars>>

\* instance.Filter(joinQuery): instance.Query = ... writes the list
ThreadAppendWrite(t) ==
    /\ threads[t].pc = "store"
    /\ qs' = [qs EXCEPT !["q"].Query = threads[t].seen \o threads[t].frag]
    /\ threads' = [threads EXCEPT ![t] = ThreadLoop(@, @.ji + 1)]
    /\ UNCHANGED <<variant, coll, nextId, seqvars>>

\* Build reads the list for its $and, the helper reads its option bag and
\* issues its own store call
ThreadIssue(t) ==
    LET th == threads[t]
        c == HelperCall(th.helper, qs["q"], BuildFilter(qs["q"]), th.arg)
    IN  /\ th.pc = "build"
        /\ threads' = [threads EXCEPT ![t].pc = "outer", ![t].call = <<c>>]
        /\ UNCHANGED <<variant, qs, coll, nextId, seqvars>>

\* the store answers the helper's own call and the helper returns
ThreadReply(t) ==
    /\ threads[t].pc = "outer"
    /\ \E how \in {"ok", "error"} :
        LET c == threads[t].call[1]
            o == StoreExec(c, how)
        IN  /\ coll' = o.coll
            /\ nextId' = o.nextId
            /\ threads' = [threads EXCEPT
                             ![t].pc = "done", ![t].call = <<>>,
                             ![t].ret = HelperReturn(c.via, c.via, o)]
    /\ UNCHANGED <<variant, qs, seqvars>>

\* the join lists the shared QuerySet was built with
ConcJoins(v) ==
    IF HasJoins(v)
    THEN {<<>>} \cup {<<j>> : j \in JoinArgs} \cup {<<i, j>> : i, j \in JoinArgs}
    ELSE {<<>>}

\* q as one owner built it before handing it to the two callers
ConcQuerySets(v) ==
    {[base EXCEPT !.Joins = js] :
        base \in {CreateQuery(<<FragA>>), Limit(CreateQuery(<<FragA>>), 1)},
        js \in ConcJoins(v)}

InitConc ==
    /\ variant \in Variants
    /\ \E q \in ConcQuerySets(variant) :
        qs = [qid \in QSIds |-> IF qid = "q" THEN q ELSE CreateQuery(<<>>)]
    /\ hist = [qid \in QSIds |->
                 <<[op |-> "Filter", args |-> IF qid = "q" THEN <<FragA>> ELSE <<>>]>>]
    /\ coll = MainDocs
    /\ nextId = Len(MainDocs) + 1
    /\ modelId = NilObjectID
    /\ pc = "idle"
    /\ cur = [helper |-> "CreateQuery", qid |-> "q", arg |-> <<>>, ji |-> 0]
    /\ pending = <<>>
    /\ calls = <<>>
    /\ ret = NoRet
    /\ ncalls = 0
    /\ entry = qs
    /\ outcomes = <<>>
    /\ answer = NoRet
    /\ modelOnly = TRUE
    /\ threads = [t \in Threads |-> ThreadReady]

NextConc ==
    \E t \in Threads :
        \/ ThreadBegin(t)
        \/ ThreadFields(t)
        \/ ThreadFind(t)
        \/ ThreadJoinReply(t)
        \/ ThreadAppendRead(t)
        \/ ThreadAppendWrite(t)
        \/ ThreadIssue(t)
        \/ ThreadReply(t)

SpecConc == InitConc /\ [][NextConc]_vars

\* the QuerySet fields the next step of a thread reads (r) and writes (w)
Access(t) ==
    LET th == threads[t]
        bag == CASE th.helper = "GetDocuments" -> {<<"q", "FindOptions">>}
                 [] th.helper = "UpdateDocument" /\ HonorsWriteOptions(variant)
                        -> {<<"q", "UpdateOptions">>}
                 [] th.helper = "DeleteDocument" /\ HonorsWriteOptions(variant)
                        -> {<<"q", "DeleteOptions">>}
                 [] OTHER -> {}
    IN  CASE th.pc = "fields" ->
                [r |-> {<<"q", "Joins">>},
                 w |-> {<<ThreadJoin(t).Query, "FindOptions">>}]
          [] th.pc = "find" ->
                [r |-> {<<ThreadJoin(t).Query, "Query">>,
                        <<ThreadJoin(t).Query, "Joins">>,
                        <<ThreadJoin(t).Query, "FindOptions">>},
                 w |-> {}]
          [] th.pc = "append" -> [r |-> {<<"q", "Query">>}, w |-> {}]
          [] th.pc = "store" -> [r |-> {}, w |-> {<<"q", "Query">>}]
          [] th.pc = "build" ->
                [r |-> {<<"q", "Query">>, <<"q", "Joins">>} \cup bag, w |-> {}]
          [] OTHER -> [r |-> {}, w |-> {}]

-----------------------------------------------------------------------------
(* Properties *)

HelperNames ==
    {"Build", "InsertDocument", "InsertDocuments", "GetDocument", "GetDocuments",
     "UpdateDocument", "UpdateDocuments", "DeleteDocument", "DeleteDocuments",
     "CountDocuments", "AggregateDocuments", "CreateIndex", "CreateIndexes",
     "ListCollections", "SaveModel", "DeleteModel"}

\* the call named by cur has returned
Returned(h) == pc = "idle" /\ cur.helper = h

\* the fragments a history of Filter and Exclude calls should have accumulated
RECURSIVE Accumulated(_)
Accumulated(h) ==
    IF h = <<>> THEN <<>>
    ELSE LET last == h[Len(h)]
         IN  Accumulated(SubSeq(h, 1, Len(h) - 1)) \o
                (IF last.op = "Filter" THEN last.args ELSE <<Nor(last.args)>>)

OnlyFilter(h) == \A i \in 1..Len(h) : h[i].op = "Filter"

\* the filter a helper call handed on: Build's result, or its store call's filter
BuiltFilter ==
    IF cur.helper = "Build" THEN ret.res[1].docs[1]
    ELSE calls[Len(calls)].filter[1]

\* a helper call on a QuerySet has built its filter
HasBuilt ==
    /\ cur.helper \in UsesQuerySet
    /\ \/ Returned(cur.helper)
       \/ pc = "outer"

\* C1: on a QuerySet that was only ever given fragments through CreateQuery and
\* Filter (no join declared), Build yields AND(f1, ..., fn) over exactly the
\* fragments passed, in the order they were passed.
C1_BuildIsAndOfFilterFragments ==
    (/\ HasBuilt
     /\ OnlyFilter(hist[cur.qid])
     /\ qs[cur.qid].Joins = <<>>)
    => /\ BuiltFilter.op = "$and"
       /\ BuiltFilter.args = Accumulated(hist[cur.qid])

C1_Witness ==
    /\ Returned("Build")
    /\ cur.qid = "q"
    /\ OnlyFilter(hist["q"])
    /\ qs["q"].Joins = <<>>
    /\ Len(hist["q"]) = 3
    /\ ret.res[1].docs[1].args = <<FragA, FragB, FragA, FragB>>

\* C2 (as claimed): no step of a helper call, Build included, changes the filter
\* list of the QuerySet it was handed.
C2_BuildLeavesFilterList ==
    [][cur'.helper \in UsesQuerySet => qs'[cur'.qid].Query = qs[cur'.qid].Query]_vars

\* C3: every Exclude call contributes exactly one $nor fragment over all its
\* arguments, in call order among the other fragments; the fragments that are
\* not join memberships are exactly those the Filter and Exclude calls gave.
C3_ExcludeAppendsOneNor ==
    \A qid \in QSIds :
        SelectSeq(qs[qid].Query, LAMBDA f : f.op # "$in") = Accumulated(hist[qid])

C3_Witness ==
    /\ Returned("Build")
    /\ cur.qid = "q"
    /\ hist["q"] = <<[op |-> "Filter", args |-> <<FragA>>],
                     [op |-> "Exclude", args |-> <<FragA, FragB>>],
                     [op |-> "Exclude", args |-> <<FragB>>]>>
    /\ ret.res[1].docs[1].args = <<FragA, Nor(<<FragA, FragB>>), Nor(<<FragB>>)>>

FindValues(instance) ==
    IF instance.FindOptions = <<>> THEN OptionsFind ELSE instance.FindOptions[1]

\* C4: a PaginateQuery call sets skip when skip is given and limit when limit is
\* given, and leaves every other option value, the filter list and the joins as
\* they were; with neither given the QuerySets are untouched.
C4_PaginateSetsOnlyWhatIsGiven ==
    [][(cur'.helper = "PaginateQuery" /\ ncalls' = ncalls + 1) =>
        LET qid == cur'.qid
            skip == cur'.arg[1]
            limit == cur'.arg[2]
            old == FindValues(qs[qid])
            new == FindValues(qs'[qid])
        IN  /\ (skip = <<>> /\ limit = <<>>) => qs' = qs
            /\ new.Skip = (IF skip = <<>> THEN old.Skip ELSE skip)
            /\ new.Limit = (IF limit = <<>> THEN old.Limit ELSE limit)
            /\ new.Sort = old.Sort
            /\ new.Projection = old.Projection
            /\ qs'[qid].Query = qs[qid].Query
            /\ qs'[qid].Joins = qs[qid].Joins
            /\ \A other \in QSIds \ {qid} : qs'[other] = qs[other]
      ]_vars

C4_Witness ==
    /\ Returned("PaginateQuery")
    /\ cur.arg = <<<<1>>, <<>>>>
    /\ qs[cur.qid].FindOptions # <<>>
    /\ qs[cur.qid].FindOptions[1].Skip = <<1>>
    /\ qs[cur.qid].FindOptions[1].Limit = <<>>

\* C5: GetDocument returns (nil, nil) when the store reports that no document
\* matches, (nil, err) when it reports another failure, and (result, nil) when
\* a document matches.
C5_GetDocumentOutcomes ==
    Returned("GetDocument") =>
        /\ answer.err = <<"ErrNoDocuments">> => ret = [res |-> <<>>, err |-> <<>>]
        /\ answer.err \notin {<<>>, <<"ErrNoDocuments">>} =>
                ret = [res |-> <<>>, err |-> answer.err]
        /\ answer.err = <<>> =>
                /\ ret.err = <<>>
                /\ ret.res = answer.res
                /\ ret.res # <<>>
                /\ Matches(ret.res[1].docs[1], calls[Len(calls)].filter[1])
        /\ (ret.res = <<>> /\ ret.err = <<>>) =>
                MatchIdx(coll, calls[Len(calls)].filter[1]) = {}

C5_Witness ==
    /\ Returned("GetDocument")
    /\ answer.err = <<"ErrNoDocuments">>
    /\ ret = [res |-> <<>>, err |-> <<>>]

\* the filter of a delete or update by identity
ById(id) == <<And(<<Eq("_id", id)>>)>>

\* C6: SaveModel issues exactly one store call: an insert when the model has no
\* identity, after which the model carries the identity the store assigned (and
\* stays without identity when the insert fails); an update by identity, and no
\* insert, when it has one, the identity staying as it was.
C6_SaveModelOneOperation ==
    cur.helper = "SaveModel" =>
        LET id == cur.arg[1]._id
        IN  /\ Len(calls) = 1
            /\ IF id = NilObjectID
               THEN /\ calls[1].op = "InsertOne"
                    /\ pc # "idle" => modelId = NilObjectID
                    /\ (pc = "idle" /\ ret.err # <<>>) => modelId = NilObjectID
                    /\ (pc = "idle" /\ ret.err = <<>>) =>
                            /\ modelId # NilObjectID
                            /\ modelId = answer.res[1].n
                            /\ \E i \in 1..Len(coll) : coll[i]._id = modelId
               ELSE /\ calls[1].op = "UpdateOne"
                    /\ calls[1].filter = ById(id)
                    /\ modelId = id

C6_Witness ==
    /\ Returned("SaveModel")
    /\ cur.arg[1]._id # NilObjectID
    /\ calls[1].op = "UpdateOne"
    /\ ret.err = <<>>

\* C7: DeleteModel of a model without identity issues no store call and returns
\* nil; of a model with an identity it issues exactly one delete by that
\* identity and returns that call's error.
C7_DeleteModel ==
    cur.helper = "DeleteModel" =>
        LET id == cur.arg[1]._id
        IN  IF id = NilObjectID
            THEN calls = <<>> /\ pending = <<>> /\ pc = "idle" /\ ret = NoRet
            ELSE /\ Len(calls) = 1
                 /\ calls[1].op = "DeleteOne"
                 /\ calls[1].filter = ById(id)
                 /\ pc = "idle" => ret = [res |-> <<>>, err |-> answer.err]

C7_Witness ==
    /\ Returned("DeleteModel")
    /\ cur.arg[1]._id = NilObjectID
    /\ calls = <<>>
    /\ coll = MainDocs

\* the joins of the current call that were declared, with how each lookup ended
JoinsWithOutcome ==
    LET J == entry[cur.qid].Joins
    IN  [i \in 1..Len(outcomes) |-> [join |-> J[i], how |-> outcomes[i]]]

SucceededJoins == SelectSeq(JoinsWithOutcome, LAMBDA x : x.how = "ok")

\* the fragments the current call appended to the filter list it was handed
AddedFragments ==
    SubSeq(qs[cur.qid].Query, Len(entry[cur.qid].Query) + 1, Len(qs[cur.qid].Query))

\* C8: once a helper call has evaluated its joins, the filter list is the one it
\* was handed followed by one membership fragment per join whose lookup
\* succeeded and nothing for a join whose lookup failed; the helper's own store
\* call is issued with the AND of that list, and the only error the helper
\* returns is the one of its own store call.
C8_JoinFailsOpen ==
    (HasBuilt /\ cur.qid \in QSIds) =>
        /\ Len(outcomes) = Len(entry[cur.qid].Joins)
        /\ SubSeq(qs[cur.qid].Query, 1, Len(entry[cur.qid].Query)) = entry[cur.qid].Query
        /\ [k \in 1..Len(AddedFragments) |-> <<AddedFragments[k].op, AddedFragments[k].field>>]
             = [k \in 1..Len(SucceededJoins) |-> <<"$in", SucceededJoins[k].join.Field>>]
        /\ BuiltFilter = And(qs[cur.qid].Query)
        /\ cur.helper # "Build" =>
                /\ Len(calls) = Len(outcomes) + 1
                /\ calls[Len(calls)].via = cur.helper
                /\ pc = "idle" => (ret.err # <<>> => ret.err = answer.err)

C8_Witness ==
    /\ Returned("GetDocuments")
    /\ outcomes = <<"readerror", "ok">>
    /\ Len(AddedFragments) = 1
    /\ AddedFragments[1].field = entry["q"].Joins[2].Field
    /\ ret.err = <<>>

\* the foreign-field values of the foreign documents the join's QuerySet selects
ForeignValues(join) ==
    LET f == entry[join.Query]
        opts == IF f.FindOptions = <<>> THEN <<>>
                ELSE <<[f.FindOptions[1] EXCEPT !.Projection = <<>>]>>
        m == FindResult(Collection(join.JoinCollection), And(f.Query), opts)
    IN  [k \in 1..Len(m) |-> m[k][join.JoinField]]

\* C9: a join whose lookup succeeded contributes exactly the fragment
\* {Field: {$in: values}}, values being the foreign field of every selected
\* foreign document, one per document, in retrieval order; with no foreign
\* document selected the fragment is still there, over the empty sequence, and
\* the outer find, find-one and count yield nothing.
C9_JoinMembership ==
    (HasBuilt /\ cur.qid \in QSIds) =>
        /\ Len(AddedFragments) = Len(SucceededJoins)
        /\ \A k \in 1..Len(SucceededJoins) :
              /\ k <= Len(AddedFragments)
              /\ AddedFragments[k] =
                    In(SucceededJoins[k].join.Field, ForeignValues(SucceededJoins[k].join))
        /\ (/\ pc = "idle"
            /\ answer.err \in {<<>>, <<"ErrNoDocuments">>}
            /\ \E k \in 1..Len(SucceededJoins) : ForeignValues(SucceededJoins[k].join) = <<>>)
           => /\ cur.helper = "GetDocuments" => answer.res[1].docs = <<>>
              /\ cur.helper = "GetDocument" => ret = NoRet
              /\ cur.helper = "CountDocuments" => answer.res[1].n = 0

C9_Witness ==
    /\ Returned("GetDocuments")
    /\ outcomes = <<"ok">>
    /\ AddedFragments = <<In("ref", <<>>)>>
    /\ answer.err = <<>>
    /\ answer.res[1].docs = <<>>

\* C10 (as claimed): every store call in flight has a bounded deadline, and a
\* helper whose own call runs out of time returns that error.
C10_EveryCallHasDeadline ==
    /\ pending # <<>> => pending[1].deadline # <<>>
    /\ (pc = "idle" /\ cur.helper \in HelperNames
        /\ answer.err = <<"context deadline exceeded">>) => ret.err = answer.err

\* the option bag of its QuerySet that helper `via` owes the store: nil
\* (<<>>, the store's defaults) when the bag was never set
OwedOptions(via, instance) ==
    CASE via \in {"UpdateDocument", "UpdateDocuments"} -> instance.UpdateOptions
      [] via \in {"DeleteDocument", "DeleteDocuments"} -> instance.DeleteOptions
      [] via = "GetDocuments" -> instance.FindOptions

\* C11 (as claimed): the store call of UpdateDocument(s), DeleteDocument(s)
\* and GetDocuments carries the update, delete or find option bag of the
\* QuerySet whenever that bag is set, and no options when it is not.
C11_OptionBagsReachTheStore ==
    (/\ pc = "outer"
     /\ cur.qid = "q"
     /\ cur.helper \in {"UpdateDocument", "UpdateDocuments", "DeleteDocument",
                        "DeleteDocuments", "GetDocuments"})
    => pending[1].opts = OwedOptions(cur.helper, qs["q"])

\* C12: a helper call on a QuerySet with k joins evaluates every join once, in
\* declaration order and one at a time: the i-th store call is the lookup of
\* the i-th declaration (its collection, its foreign field, the filter of its
\* QuerySet), at most one lookup is in flight and it is the last one issued,
\* the helper's own call comes only after all k lookups have ended, and the
\* filter list is the one handed in followed by the fragments of the joins
\* that succeeded, each on its declaration's local field, in that order.
C12_JoinsEvaluatedInOrder ==
    (HasJoins(variant) /\ cur.helper \in UsesQuerySet /\ cur.qid \in QSIds) =>
        LET J == entry[cur.qid].Joins
            k == Len(J)
        IN  /\ qs[cur.qid].Joins = J
            /\ \A i \in 1..Min(Len(calls), k) :
                    /\ calls[i].op = "Find"
                    /\ calls[i].coll = J[i].JoinCollection
                    /\ calls[i].filter = <<And(entry[J[i].Query].Query)>>
                    /\ calls[i].opts # <<>>
                    /\ calls[i].opts[1].Projection = <<{<<J[i].JoinField, 1>>}>>
            /\ pc = "join" => /\ Len(calls) = Len(outcomes) + 1
                              /\ Len(calls) <= k
                              /\ pending = <<calls[Len(calls)]>>
            /\ pc # "join" => Len(outcomes) = k
            /\ Len(calls) > k => /\ Len(calls) = k + 1
                                 /\ calls[k + 1].via = cur.helper
                                 /\ calls[k + 1].coll = "main"
                                 /\ calls[k + 1].filter = <<And(qs[cur.qid].Query)>>
            /\ SubSeq(qs[cur.qid].Query, 1, Len(entry[cur.qid].Query)) = entry[cur.qid].Query
            /\ [i \in 1..Len(AddedFragments) |-> AddedFragments[i].field]
                 = [i \in 1..Len(SucceededJoins) |-> SucceededJoins[i].join.Field]

C12_Witness ==
    /\ Returned("GetDocuments")
    /\ Len(entry["q"].Joins) = 2
    /\ entry["q"].Joins[1] # entry["q"].Joins[2]
    /\ outcomes = <<"ok", "ok">>
    /\ Len(calls) = 3
    /\ calls[1].coll = "foreign" /\ calls[2].coll = "archive"
    /\ [i \in 1..2 |-> AddedFragments[i].field] = <<"ref", "k">>

\* C13 (as claimed): two helper calls that run at the same time share no
\* mutable state: never is one about to write a QuerySet field that the
\* other is about to read or write.
C13_NoSharedMutableState ==
    \A a, b \in Threads :
        a # b => Access(a).w \cap (Access(b).r \cup Access(b).w) = {}

\* the step is a call of one of the builder methods in `names`
BuilderStep(names) == ncalls' = ncalls + 1 /\ cur'.helper \in names

\* the find option a setter sets
OwnOption(name) ==
    CASE name = "Limit" -> "Limit" [] name = "Skip" -> "Skip" [] name = "Sort" -> "Sort"

\* the find options of a QuerySet, those of a fresh bag when it has none
FindValuesOf(instance) ==
    IF instance.FindOptions = <<>> THEN OptionsFind ELSE instance.FindOptions[1]

\* before any call no bag is set, the filter builders set none, and a call of
\* Limit, Skip or Sort sets its own find option to its argument and keeps the
\* other find options, the filter list and the joins
SettersSetTheirOption ==
    /\ ncalls = 0 =>
         \A qid \in QSIds : /\ qs[qid].FindOptions = <<>>
                            /\ qs[qid].UpdateOptions = <<>>
                            /\ qs[qid].DeleteOptions = <<>>
    /\ BuilderStep({"Filter", "Exclude", "Join"}) =>
         \A qid \in QSIds : /\ qs'[qid].FindOptions = qs[qid].FindOptions
                            /\ qs'[qid].UpdateOptions = qs[qid].UpdateOptions
                            /\ qs'[qid].DeleteOptions = qs[qid].DeleteOptions
    /\ BuilderStep({"Limit", "Skip", "Sort"}) =>
         LET old == qs[cur'.qid]
             new == qs'[cur'.qid]
             own == OwnOption(cur'.helper)
         IN  /\ new.FindOptions # <<>>
             /\ new.FindOptions[1][own] = <<cur'.arg[1]>>
             /\ \A f \in DOMAIN OptionsFind \ {own} :
                    new.FindOptions[1][f] = FindValuesOf(old)[f]
             /\ new.Query = old.Query
             /\ new.Joins = old.Joins
             /\ \A qid \in QSIds \ {cur'.qid} : qs'[qid] = qs[qid]

\* C14 (as claimed): the option bags are created lazily and independently; a
\* call of Limit, Skip or Sort creates only the find bag, so the update and
\* delete bags are after the call what they were before it (absent, when no
\* other call created them).
C14_OnlyTheFindBagIsCreated ==
    [][/\ SettersSetTheirOption
       /\ BuilderStep({"Limit", "Skip", "Sort"}) =>
            /\ qs'[cur'.qid].UpdateOptions = qs[cur'.qid].UpdateOptions
            /\ qs'[cur'.qid].DeleteOptions = qs[cur'.qid].DeleteOptions]_vars

\* C14 (amended): no bag is set before the first option setter; a call of
\* Limit, Skip or Sort creates every bag that is absent - find, update and
\* delete together, a bag already present being kept - and then sets its own
\* find option, overwriting its value and keeping the other find options; so
\* after any call of Limit, Skip or Sort all three bags are present, the
\* update and delete bags without any setting of their own.
C14_SettersCreateAllBags ==
    [][/\ SettersSetTheirOption
       /\ BuilderStep({"Limit", "Skip", "Sort"}) =>
            LET old == qs[cur'.qid]
                new == qs'[cur'.qid]
            IN  /\ new.UpdateOptions =
                     IF old.UpdateOptions = <<>> THEN <<OptionsUpdate>>
                     ELSE old.UpdateOptions
                /\ new.DeleteOptions =
                     IF old.DeleteOptions = <<>> THEN <<OptionsDelete>>
                     ELSE old.DeleteOptions]_vars

C14_Witness ==
    /\ pc = "idle"
    /\ cur.helper = "Limit"
    /\ cur.qid = "q"
    /\ cur.arg = <<2>>
    /\ ncalls = 3
    /\ qs["q"].FindOptions = <<[OptionsFind EXCEPT !.Limit = <<2>>, !.Skip = <<1>>]>>
    /\ qs["q"].UpdateOptions = <<OptionsUpdate>>
    /\ qs["q"].DeleteOptions = <<OptionsDelete>>

\* C15 (as claimed): while only SaveModel and DeleteModel have used the store
\* and the store has answered every call, a SaveModel that returned no error
\* leaves in the collection a document with the identity of the model.
C15_SavedModelIsStored ==
    (Returned("SaveModel") /\ modelOnly /\ ret.err = <<>>)
    => \E i \in 1..Len(coll) : coll[i]._id = modelId

====
